---- MODULE Spec2Model ----
(***************************************************************************)
(* Longitudinal MPC of selfdrive/controls/lib/longitudinal_mpc.            *)
(*                                                                         *)
(* generator.cpp states the optimal control problem (dynamics f, residuals *)
(* h and hN, weight patterns Q and QN, the time grid numSteps, the path    *)
(* constraint 0 <= v_ego, three online data) and exports a solver for it.  *)
(*                                                                         *)
(* Two specifications:                                                     *)
(*   SpecEval  evaluates the formulation (RW, follow_const_m, desired, h,  *)
(*             hN) at operating points, in fixed-point arithmetic;         *)
(*   Spec      runs main() of the generator statement by statement and     *)
(*             then the ticks of the exported solver.                      *)
(***************************************************************************)
EXTENDS Integers, Sequences, FiniteSets

VARIABLES
  \* main() of generator.cpp
  pc,         \* position in main()
  i,          \* loop counter of the two numSteps loops
  numSteps,   \* DMatrix numSteps(20, 1)
  ocp,        \* OCP ocp(tStart, tEnd, numSteps) and what is added to it
  options,    \* the options set on OCPexport mpc
  \* the exported solver, tick after tick
  solver,
  \* evaluation of the formulation at one operating point
  env,        \* the point: differential states, control, online data
  val,        \* the values computed there
  prev        \* the values computed at the point before the last step

vars == <<pc, i, numSteps, ocp, options, solver, env, val, prev>>

genVars == <<pc, i, numSteps, ocp, options>>
evalVars == <<env, val, prev>>

(***************************************************************************)
(* Fixed-point reals: the integer n stands for n / S.  Products and        *)
(* quotients truncate toward zero.                                         *)
(***************************************************************************)
S == 10 * 10 * 10

Fx(n, d) == (n * S) \div d

Abs(a) == IF a < 0 THEN -a ELSE a

Sgn(a) == IF a < 0 THEN -1 ELSE 1

Mul(a, b) ==
  LET x == Abs(a)
      y == Abs(b)
  IN  Sgn(a) * Sgn(b) * ((x \div S) * y + ((x % S) * y) \div S)

Div(a, b) == Sgn(a) * Sgn(b) * ((Abs(a) * S) \div Abs(b))

\* largest r in lo..hi with r * r <= n
RECURSIVE SqrtSearch(_, _, _)
SqrtSearch(n, lo, hi) ==
  IF lo >= hi THEN lo
  ELSE LET mid == (lo + hi + 1) \div 2
       IN  IF mid * mid <= n THEN SqrtSearch(n, mid, hi)
           ELSE SqrtSearch(n, lo, mid - 1)

\* sqrt of math.h on a non-negative argument
Sqrt(a) == SqrtSearch(a * S, 0, IF a * S < 40000 THEN a * S ELSE 40000)

\* a / n for a whole number n > 0, truncated toward zero
Quot(a, n) == Sgn(a) * (Abs(a) \div n)

\* the series 1 + x + x^2/2! + ... from term n on, until the terms vanish
RECURSIVE ExpSeries(_, _, _)
ExpSeries(x, n, term) ==
  IF term = 0 THEN 0
  ELSE term + ExpSeries(x, n + 1, Quot(Mul(term, x), n + 1))

\* exp of math.h: argument halving down to |x| <= 1/2, then the series
RECURSIVE Exp(_)
Exp(x) ==
  IF Abs(x) <= S \div 2 THEN ExpSeries(x, 0, S)
  ELSE LET half == Quot(x, 2)
           e == Exp(half)
       IN  IF e = 0 THEN 0
           ELSE IF x - half = half THEN Mul(e, e)
           ELSE Mul(e, Exp(x - half))

(***************************************************************************)
(* The formulation, generator.cpp lines 8-74                               *)
(***************************************************************************)
G == Fx(981, 100)

\* RW with the lead's braking distance written v_l / (2*G)
RW_lead_speed_not_squared(v_ego, v_l, time_gap) ==
  Mul(v_ego, time_gap) - Mul(v_l - v_ego, time_gap)
    + Div(Mul(v_ego, v_ego), 2 * G) - Div(v_l, 2 * G)

RW(v_ego, v_l, time_gap) ==
  Mul(v_ego, time_gap) - Mul(v_l - v_ego, time_gap)
    + Div(Mul(v_ego, v_ego), 2 * G) - Div(Mul(v_l, v_l), 2 * G)

NORM_RW_ERROR(v_ego, v_l, p, time_gap) ==
  Div(RW(v_ego, v_l, time_gap) + Fx(4, 1) - p, Sqrt(v_ego + Fx(1, 2)) + Fx(1, 10))

\* follow_const_m with the sign of the speed term of the exponent flipped
follow_const_m_rising_exponent(v_ego) ==
  Div(Fx(275, 100), S + Exp(Fx(22, 10) + Mul(Fx(9, 10), v_ego))) + Fx(125, 100)

follow_const_m(v_ego) ==
  Div(Fx(275, 100), S + Exp(Fx(22, 10) - Mul(Fx(9, 10), v_ego))) + Fx(125, 100)

desired(v_ego, v_l, time_gap) == follow_const_m(v_ego) + RW(v_ego, v_l, time_gap)

d_l(x_l, x_ego) == x_l - x_ego

\* f with dot(v_ego) == j_ego
f_velocity_from_jerk(s, j_ego) == [x_ego |-> s.v_ego, v_ego |-> j_ego, a_ego |-> j_ego]

\* Equations of motion: the right-hand side of f at state s under control j_ego
f(s, j_ego) == [x_ego |-> s.v_ego, v_ego |-> s.a_ego, a_ego |-> j_ego]

\* Running cost residual at point e
h(e) ==
  << Exp(Mul(Fx(3, 10), NORM_RW_ERROR(e.v_ego, e.v_l, d_l(e.x_l, e.x_ego), e.time_gap))),
     Div(d_l(e.x_l, e.x_ego) - desired(e.v_ego, e.v_l, e.time_gap),
         Mul(Fx(5, 100), e.v_ego) + Fx(5, 10)),
     Mul(e.a_ego, Mul(Fx(1, 10), e.v_ego) + Fx(1, 1)),
     Mul(e.j_ego, Mul(Fx(1, 10), e.v_ego) + Fx(1, 1)) >>

\* hN with the jerk term of h copied in place of the acceleration term
hN_with_jerk_term(e) ==
  << Exp(Mul(Fx(3, 10), NORM_RW_ERROR(e.v_ego, e.v_l, d_l(e.x_l, e.x_ego), e.time_gap))),
     Div(d_l(e.x_l, e.x_ego) - desired(e.v_ego, e.v_l, e.time_gap),
         Mul(Fx(5, 100), e.v_ego) + Fx(5, 10)),
     Mul(e.j_ego, Mul(Fx(1, 10), e.v_ego) + Fx(1, 1)) >>

\* Terminal cost residual at point e
hN(e) ==
  << Exp(Mul(Fx(3, 10), NORM_RW_ERROR(e.v_ego, e.v_l, d_l(e.x_l, e.x_ego), e.time_gap))),
     Div(d_l(e.x_l, e.x_ego) - desired(e.v_ego, e.v_l, e.time_gap),
         Mul(Fx(5, 100), e.v_ego) + Fx(5, 10)),
     Mul(e.a_ego, Mul(Fx(1, 10), e.v_ego) + Fx(1, 1)) >>

\* BMatrix Q(4,4); Q.setAll(true)
Q == [r \in 1..4 |-> [c \in 1..4 |-> TRUE]]

\* BMatrix QN(3,3); QN.setAll(true)
QN == [r \in 1..3 |-> [c \in 1..3 |-> TRUE]]

(***************************************************************************)
(* SpecEval: the formulation evaluated at operating points                 *)
(***************************************************************************)
\* speeds are stepped in half metres per second, from standstill
VStep == S \div 2

MaxVSteps == 24

LeadSpeeds == {0, Fx(5, 1), Fx(10, 1)}

TimeGaps == {Fx(9, 10), Fx(18, 10)}

EgoPositions == {0, Fx(2, 1)}

LeadPositions == {Fx(4, 1), Fx(30, 1)}

Accels == {-S, S}

Jerks == {0, S}

Points ==
  [x_ego : EgoPositions, v_ego : {0}, a_ego : Accels, j_ego : Jerks,
   x_l : LeadPositions, v_l : LeadSpeeds, time_gap : TimeGaps]

NoValues ==
  [op |-> "none", RW |-> 0, follow_const_m |-> 0, desired |-> 0,
   h |-> <<>>, hN |-> <<>>]

\* every expression of the formulation at point e, reached by step op
Values(e, op) ==
  [op |-> op,
   RW |-> RW(e.v_ego, e.v_l, e.time_gap),
   follow_const_m |-> follow_const_m(e.v_ego),
   desired |-> desired(e.v_ego, e.v_l, e.time_gap),
   h |-> h(e),
   hN |-> hN(e)]

EvalIdle ==
  /\ env = [x_ego |-> 0, v_ego |-> 0, a_ego |-> 0, j_ego |-> 0,
            x_l |-> 0, v_l |-> 0, time_gap |-> 0]
  /\ val = NoValues
  /\ prev = NoValues

GenIdle ==
  /\ pc = "idle"
  /\ i = 0
  /\ numSteps = <<>>
  /\ ocp = <<>>
  /\ options = <<>>
  /\ solver = [exported |-> FALSE]

InitEval ==
  /\ GenIdle
  /\ env \in Points
  /\ val = NoValues
  /\ prev = NoValues

Evaluate ==
  /\ val.op = "none"
  /\ val' = Values(env, "eval")
  /\ UNCHANGED <<env, prev, genVars, solver>>

\* the same point at the next higher ego speed
StepV ==
  /\ val.op # "none"
  /\ env.v_ego + VStep <= MaxVSteps * VStep
  /\ env' = [env EXCEPT !.v_ego = @ + VStep]
  /\ prev' = val
  /\ val' = Values(env', "v")
  /\ UNCHANGED <<genVars, solver>>

\* the same point under another jerk
StepJ ==
  /\ val.op # "none"
  /\ \E j \in Jerks \ {env.j_ego} :
        /\ env' = [env EXCEPT !.j_ego = j]
        /\ prev' = val
        /\ val' = Values(env', "j")
  /\ UNCHANGED <<genVars, solver>>

NextEval == Evaluate \/ StepV \/ StepJ

SpecEval == InitEval /\ [][NextEval]_vars

(***************************************************************************)
(* main() of generator.cpp, lines 76-120                                   *)
(***************************************************************************)
controlHorizon == 50

N == 20

\* what an entry of numSteps may hold before the loops assign it
UnsetEntries == {0, 2}

tStart == 0

tEnd == Fx(10, 1)

\* a budget of ten times as many QP iterations
MAX_NUM_QP_ITERATIONS_tenfold == 10 * 500

MAX_NUM_QP_ITERATIONS == 500

\* the mpc.set calls of lines 100-113, in order
OptionList ==
  << <<"HESSIAN_APPROXIMATION", "GAUSS_NEWTON">>,
     <<"DISCRETIZATION_TYPE", "MULTIPLE_SHOOTING">>,
     <<"INTEGRATOR_TYPE", "INT_RK4">>,
     <<"NUM_INTEGRATOR_STEPS", controlHorizon>>,
     <<"MAX_NUM_QP_ITERATIONS", MAX_NUM_QP_ITERATIONS>>,
     <<"CG_USE_VARIABLE_WEIGHTING_MATRIX", "YES">>,
     <<"SPARSE_QP_SOLUTION", "CONDENSING">>,
     <<"QP_SOLVER", "QP_QPOASES">>,
     <<"HOTSTART_QP", "YES">>,
     <<"GENERATE_TEST_FILE", "NO">>,
     <<"GENERATE_MAKE_FILE", "NO">>,
     <<"GENERATE_MATLAB_INTERFACE", "NO">>,
     <<"GENERATE_SIMULINK_INTERFACE", "NO">> >>

OptionNames == {OptionList[k][1] : k \in 1..Len(OptionList)}

RECURSIVE SumTo(_, _)
SumTo(m, k) == IF k = 0 THEN 0 ELSE m[k - 1] + SumTo(m, k - 1)

\* OCP(tStart, tEnd, numSteps): the shooting grid.  Every integrator step has
\* the same length, the horizon divided by the total number of steps, and
\* interval k spans numSteps(k) of them.
Grid(m) ==
  LET totalSteps == SumTo(m, N)
      hStep == (tEnd - tStart) \div totalSteps
  IN  [k \in 0..N |-> tStart + hStep * SumTo(m, k)]

NoOCP ==
  [times |-> <<>>, numSteps |-> <<>>, dynamics |-> FALSE, lsq |-> 0,
   lsqEnd |-> 0, lower |-> <<>>, NOD |-> 0]

NoOptions == [o \in OptionNames |-> "default"]

NoSolver == [exported |-> FALSE]

\* the first loop writing the step count of the second
LoopFirst_three_steps ==
  /\ pc = "loop1"
  /\ IF i < 5
     THEN /\ numSteps' = [numSteps EXCEPT ![i] = 3]
          /\ i' = i + 1
          /\ pc' = pc
     ELSE /\ i' = 5
          /\ pc' = "loop2"
          /\ UNCHANGED numSteps
  /\ UNCHANGED <<ocp, options, solver, evalVars>>

LoopFirst ==
  /\ pc = "loop1"
  /\ IF i < 5
     THEN /\ numSteps' = [numSteps EXCEPT ![i] = 1]
          /\ i' = i + 1
          /\ pc' = pc
     ELSE /\ i' = 5
          /\ pc' = "loop2"
          /\ UNCHANGED numSteps
  /\ UNCHANGED <<ocp, options, solver, evalVars>>

\* the second loop ending one entry early
LoopSecond_stops_at_19 ==
  /\ pc = "loop2"
  /\ IF i < 19
     THEN /\ numSteps' = [numSteps EXCEPT ![i] = 3]
          /\ i' = i + 1
          /\ pc' = pc
     ELSE /\ i' = 0
          /\ pc' = "ocp"
          /\ UNCHANGED numSteps
  /\ UNCHANGED <<ocp, options, solver, evalVars>>

LoopSecond ==
  /\ pc = "loop2"
  /\ IF i < 20
     THEN /\ numSteps' = [numSteps EXCEPT ![i] = 3]
          /\ i' = i + 1
          /\ pc' = pc
     ELSE /\ i' = 0
          /\ pc' = "ocp"
          /\ UNCHANGED numSteps
  /\ UNCHANGED <<ocp, options, solver, evalVars>>

\* OCP ocp(tStart, tEnd, numSteps)
ConstructOCP ==
  /\ pc = "ocp"
  /\ ocp' = [NoOCP EXCEPT !.times = Grid(numSteps), !.numSteps = numSteps]
  /\ pc' = "subjectTo_f"
  /\ UNCHANGED <<i, numSteps, options, solver, evalVars>>

\* ocp.subjectTo(f)
SubjectToDynamics ==
  /\ pc = "subjectTo_f"
  /\ ocp' = [ocp EXCEPT !.dynamics = TRUE]
  /\ pc' = "minimizeLSQ"
  /\ UNCHANGED <<i, numSteps, options, solver, evalVars>>

\* ocp.minimizeLSQ(Q, h)
MinimizeLSQ ==
  /\ pc = "minimizeLSQ"
  /\ ocp' = [ocp EXCEPT !.lsq = Cardinality(DOMAIN Q)]
  /\ pc' = "minimizeLSQEndTerm"
  /\ UNCHANGED <<i, numSteps, options, solver, evalVars>>

\* ocp.minimizeLSQEndTerm(QN, hN)
MinimizeLSQEndTerm ==
  /\ pc = "minimizeLSQEndTerm"
  /\ ocp' = [ocp EXCEPT !.lsqEnd = Cardinality(DOMAIN QN)]
  /\ pc' = "subjectTo_v"
  /\ UNCHANGED <<i, numSteps, options, solver, evalVars>>

\* the bounds of ocp.subjectTo( 0.0 <= v_ego ): a lower bound on v_ego
VelocityBound == [v_ego |-> 0]

\* ocp.subjectTo( 0.0 <= v_ego )
SubjectToVelocity ==
  /\ pc = "subjectTo_v"
  /\ ocp' = [ocp EXCEPT !.lower = VelocityBound]
  /\ pc' = "setNOD"
  /\ UNCHANGED <<i, numSteps, options, solver, evalVars>>

\* ocp.setNOD(3)
SetNOD ==
  /\ pc = "setNOD"
  /\ ocp' = [ocp EXCEPT !.NOD = 3]
  /\ i' = 1
  /\ pc' = "set"
  /\ UNCHANGED <<numSteps, options, solver, evalVars>>

\* OCPexport mpc(ocp) and one mpc.set( name, value ) after the other
SetOption ==
  /\ pc = "set"
  /\ IF i <= Len(OptionList)
     THEN /\ options' = [options EXCEPT ![OptionList[i][1]] = OptionList[i][2]]
          /\ i' = i + 1
          /\ pc' = pc
     ELSE /\ i' = 0
          /\ pc' = "exportCode"
          /\ UNCHANGED options
  /\ UNCHANGED <<numSteps, ocp, solver, evalVars>>

(***************************************************************************)
(* The exported solver.  Time is counted in integrator steps and the       *)
(* states in whole units chosen so that every division below is exact:     *)
(* velocities are even, accelerations multiples of 4, jerks multiples of   *)
(* 12.                                                                     *)
(***************************************************************************)
Plus(s, d) ==
  [x_ego |-> s.x_ego + d.x_ego, v_ego |-> s.v_ego + d.v_ego, a_ego |-> s.a_ego + d.a_ego]

Scaled(c, d) == [x_ego |-> c * d.x_ego, v_ego |-> c * d.v_ego, a_ego |-> c * d.a_ego]

Over(d, c) == [x_ego |-> d.x_ego \div c, v_ego |-> d.v_ego \div c, a_ego |-> d.a_ego \div c]

\* INT_RK4: one classical Runge-Kutta step of unit length on f
RK4Step(s, j_ego) ==
  LET k1 == f(s, j_ego)
      k2 == f(Plus(s, Over(k1, 2)), j_ego)
      k3 == f(Plus(s, Over(k2, 2)), j_ego)
      k4 == f(Plus(s, k3), j_ego)
  IN  Plus(s, Over(Plus(Plus(k1, Scaled(2, k2)), Plus(Scaled(2, k3), k4)), 6))

\* one shooting interval: n integrator steps under one control
RECURSIVE Integrate(_, _, _)
Integrate(s, j_ego, n) ==
  IF n = 0 THEN s ELSE Integrate(RK4Step(s, j_ego), j_ego, n - 1)

\* MULTIPLE_SHOOTING: the node states from x0 under the controls u, interval
\* k integrated with m[k] steps; acc holds the nodes reached so far
RECURSIVE Shoot(_, _, _)
Shoot(acc, u, m) ==
  IF Len(acc) = Len(u) + 1 THEN acc
  ELSE LET k == Len(acc)
       IN  Shoot(Append(acc, Integrate(acc[k], u[k], m[k - 1])), u, m)

Rollout(x0, u, m) == Shoot(<<x0>>, u, m)

\* the bound put on the position instead of the velocity
PathConstraint_on_position(lower, s) == lower.v_ego <= s.x_ego

\* the path constraint of the OCP at a node: lower bounds on the states
PathConstraint(lower, s) == lower.v_ego <= s.v_ego

Num(n) == [kind |-> "num", n |-> n]

NaN == [kind |-> "nan", n |-> 0]

Inf == [kind |-> "inf", n |-> 0]

isfinite(d) == d.kind = "num"

ZeroState == [x_ego |-> 0, v_ego |-> 0, a_ego |-> 0]

ZeroParams == [x_l |-> 0, v_l |-> 0, time_gap |-> 0]

\* the trajectory at startup: zero controls, the states propagated
InitialGuess(m) ==
  [x |-> Rollout(ZeroState, [k \in 1..N |-> 0], m), u |-> [k \in 1..N |-> 0]]

\* mpc.exportCode( "lib_mpc_export" ): the solver for the OCP as stated (the
\* integrator steps of each interval, the bounds, the number of online data,
\* the QP iteration budget), before its first tick
Exported(o, opts) ==
  [exported |-> TRUE,
   numSteps |-> o.numSteps,
   lower |-> o.lower,
   NOD |-> o.NOD,
   maxIter |-> opts["MAX_NUM_QP_ITERATIONS"],
   x |-> InitialGuess(o.numSteps).x,
   u |-> InitialGuess(o.numSteps).u,
   od |-> [k \in 1..(N + 1) |-> <<0, 0, 0>>],
   x0 |-> ZeroState,
   params |-> ZeroParams,
   warm |-> [x |-> <<>>, u |-> <<>>],
   lastUpdate |-> <<Num(0), Num(0), Num(0)>>,
   prevParams |-> ZeroParams,
   qp |-> "none",
   work |-> 0,
   status |-> "None",
   nWSR |-> 0,
   flagged |-> FALSE]

\* if (mpc.exportCode( "lib_mpc_export" ) != SUCCESSFUL_RETURN) exit( EXIT_FAILURE )
ExportCode ==
  /\ pc = "exportCode"
  /\ \/ /\ solver' = Exported(ocp, options)
        /\ pc' = "printDimensionsQP"
     \/ /\ pc' = "exit_failure"
        /\ UNCHANGED solver
  /\ UNCHANGED <<i, numSteps, ocp, options, evalVars>>

\* mpc.printDimensionsQP( ); return EXIT_SUCCESS
PrintDimensionsQP ==
  /\ pc = "printDimensionsQP"
  /\ pc' = "done"
  /\ UNCHANGED <<i, numSteps, ocp, options, solver, evalVars>>

(***************************************************************************)
(* One tick of the exported solver                                         *)
(***************************************************************************)
\* update taking each finite value by itself
update_componentwise(p, lead_position, lead_velocity, time_gap_preference) ==
  [x_l |-> IF isfinite(lead_position) THEN lead_position.n ELSE p.x_l,
   v_l |-> IF isfinite(lead_velocity) THEN lead_velocity.n ELSE p.v_l,
   time_gap |-> IF isfinite(time_gap_preference) THEN time_gap_preference.n ELSE p.time_gap]

\* update(lead_position, lead_velocity, time_gap_preference)
update(p, lead_position, lead_velocity, time_gap_preference) ==
  IF isfinite(lead_position) /\ isfinite(lead_velocity) /\ isfinite(time_gap_preference)
  THEN [x_l |-> lead_position.n, v_l |-> lead_velocity.n, time_gap |-> time_gap_preference.n]
  ELSE p

\* the online data of every node for one solve
OnlineData(p) == [k \in 1..(N + 1) |-> <<p.x_l, p.v_l, p.time_gap>>]

\* the inputs of the ticks
Updates ==
  { <<Num(400), Num(40), Num(9)>>, <<Num(600), Num(20), Num(18)>>,
    <<NaN, Num(20), Num(18)>>, <<Num(600), Inf, Num(18)>>,
    <<Num(400), Num(40), NaN>> }

Measurements ==
  { [x_ego |-> 0, v_ego |-> 0, a_ego |-> 0], [x_ego |-> 0, v_ego |-> 4000, a_ego |-> -8],
    [x_ego |-> 6, v_ego |-> 0, a_ego |-> -8], [x_ego |-> 6, v_ego |-> -2, a_ego |-> 0] }

\* the control sequences the QP kernel chooses among: one jerk over the
\* short intervals, one over the long ones
Candidates == {[k \in 1..N |-> IF k <= 5 THEN a ELSE b] : a \in {-12, 0, 12}, b \in {-12, 0}}

\* the iterations the QP kernel would take to finish: to its solution, or,
\* when there is no feasible point, to finding that out, which it does
\* within its budget
QPWork == {1, 500, 501}

\* Linearize and Solve: the steps the QP kernel chooses among, from the warm
\* start to each control sequence whose node states, propagated from the
\* pinned state x0, all satisfy the path constraint
QPSteps(x0, warmStart, lower, m) ==
  LET shots == {[u |-> c, x |-> Rollout(x0, c, m)] : c \in Candidates}
      feasible == {t \in shots : \A k \in 1..(N + 1) : PathConstraint(lower, t.x[k])}
  IN  {[du |-> [k \in 1..N |-> t.u[k] - warmStart.u[k]], x |-> t.x] : t \in feasible}

\* an infeasible solve leaving the trajectory at the pinned state, at rest
Infeasible_resets_trajectory(sv, warmStart, work) ==
  [sv EXCEPT !.qp = "infeasible", !.work = work, !.nWSR = work,
             !.x = [k \in 1..(N + 1) |-> sv.x0], !.u = [k \in 1..N |-> 0],
             !.warm = warmStart, !.status = "Infeasible"]

\* Solve, no feasible point: the kernel says so, the retained trajectory
\* stays and the caller is told
Infeasible(sv, warmStart, work) ==
  [sv EXCEPT !.qp = "infeasible", !.work = work, !.nWSR = work,
             !.warm = warmStart, !.status = "Infeasible"]

\* Update with the step the kernel returned: the controls perturbed, the
\* states propagated again
Updated(sv, warmStart, step, work) ==
  [sv EXCEPT !.qp = IF work > sv.maxIter THEN "max_iterations" ELSE "solved",
             !.work = work,
             !.nWSR = IF work < sv.maxIter THEN work ELSE sv.maxIter,
             !.x = step.x,
             !.u = [k \in 1..N |-> warmStart.u[k] + step.du[k]],
             !.warm = warmStart,
             !.status = IF work > sv.maxIter THEN "Degraded" ELSE "Converged"]

\* Initial: the online data and the measured state are loaded
Loaded(sv, meas, upd) ==
  LET p == update(sv.params, upd[1], upd[2], upd[3])
  IN  [sv EXCEPT !.lastUpdate = upd,
                 !.prevParams = sv.params,
                 !.params = p,
                 !.od = OnlineData(p),
                 !.x0 = meas,
                 !.flagged = ~(isfinite(upd[1]) /\ isfinite(upd[2]) /\ isfinite(upd[3]))]

Tick ==
  /\ pc = "done"
  /\ \E meas \in Measurements :
       \E warmStart \in {[x |-> solver.x, u |-> solver.u]} :
         \E steps \in {QPSteps(meas, warmStart, solver.lower, solver.numSteps)} :
           \E upd \in Updates, work \in QPWork :
             IF steps = {}
             THEN /\ work <= solver.maxIter
                  /\ solver' = Infeasible(Loaded(solver, meas, upd), warmStart, work)
             ELSE \E step \in steps :
                    solver' = Updated(Loaded(solver, meas, upd), warmStart, step, work)
  /\ UNCHANGED <<genVars, evalVars>>

Init ==
  /\ pc = "loop1"
  /\ i = 0
  /\ \E g \in UnsetEntries : numSteps = [k \in 0..(N - 1) |-> g]
  /\ ocp = NoOCP
  /\ options = NoOptions
  /\ solver = NoSolver
  /\ EvalIdle

Next ==
  \/ LoopFirst
  \/ LoopSecond
  \/ ConstructOCP
  \/ SubjectToDynamics
  \/ MinimizeLSQ
  \/ MinimizeLSQEndTerm
  \/ SubjectToVelocity
  \/ SetNOD
  \/ SetOption
  \/ ExportCode
  \/ PrintDimensionsQP
  \/ Tick

Spec == Init /\ [][Next]_vars

(***************************************************************************)
(* Properties of the generator and of the exported solver, under Spec      *)
(***************************************************************************)
\* the OCP has been constructed
Constructed == pc \notin {"loop1", "loop2", "ocp"}

Ticked == solver.exported /\ solver.status # "None"

Accepted == solver.exported /\ solver.status \in {"Converged", "Degraded"}

Duration(k) == ocp.times[k + 1] - ocp.times[k]

\* C1: once the OCP is constructed, and after any number of ticks, the grid
\* has 20 shooting intervals, intervals 0..4 last 0.2 s and intervals 5..19
\* last 0.6 s, from tStart = 0 to tEnd = 10 s; the exported solver has these
\* intervals and a trajectory of 21 nodes and 20 controls.
C1_grid_fixed ==
  Constructed =>
    /\ DOMAIN ocp.times = 0..20
    /\ \A k \in 0..4 : Duration(k) = Fx(2, 10)
    /\ \A k \in 5..19 : Duration(k) = Fx(6, 10)
    /\ ocp.times[0] = 0
    /\ ocp.times[20] = Fx(10, 1)
    /\ ocp.times[20] - ocp.times[0] = 5 * Fx(2, 10) + 15 * Fx(6, 10)
    /\ solver.exported =>
         /\ solver.numSteps = ocp.numSteps
         /\ Len(solver.x) = 21
         /\ Len(solver.u) = 20

C1_Witness ==
  /\ Ticked
  /\ solver.status = "Converged"
  /\ solver.u[1] # 0
  /\ ocp.times[5] = Fx(1, 1)
  /\ ocp.times[20] = Fx(10, 1)

C3_infeasible_retains ==
  [][(pc = "done" /\ solver' # solver) =>
       /\ solver'.warm = [x |-> solver.x, u |-> solver.u]
       /\ solver'.qp = "infeasible" =>
            /\ solver'.status = "Infeasible"
            /\ solver'.x = solver.x
            /\ solver'.u = solver.u]_vars

C3_Witness ==
  /\ Ticked
  /\ solver.qp = "infeasible"
  /\ solver.status = "Infeasible"
  /\ solver.x = solver.warm.x
  /\ solver.u[1] # 0
  /\ solver.x[1] # solver.x0

AllFinite(upd) == isfinite(upd[1]) /\ isfinite(upd[2]) /\ isfinite(upd[3])

\* C7: after a tick whose update carried a non-finite value the stored
\* parameters are those of the tick before; after a tick with finite values
\* they are the three values given; and the online data of the solve are
\* these three values at every one of the 21 nodes.
C7_parameters ==
  Ticked =>
    /\ ~AllFinite(solver.lastUpdate) => solver.params = solver.prevParams
    /\ AllFinite(solver.lastUpdate) =>
         solver.params = [x_l |-> solver.lastUpdate[1].n, v_l |-> solver.lastUpdate[2].n,
                          time_gap |-> solver.lastUpdate[3].n]
    /\ Len(solver.od) = 21
    /\ \A k \in 1..21 :
         solver.od[k] = <<solver.params.x_l, solver.params.v_l, solver.params.time_gap>>
    /\ solver.NOD = 3

C7_Witness ==
  /\ Ticked
  /\ ~isfinite(solver.lastUpdate[2])
  /\ isfinite(solver.lastUpdate[1])
  /\ solver.params = solver.prevParams
  /\ solver.params.x_l # solver.lastUpdate[1].n
  /\ solver.params.x_l # 0
  /\ solver.od[21][1] = solver.params.x_l

\* the solution of dx/dt = v, dv/dt = a, da/dt = j after time n from state s
Flow(s, j, n) ==
  [x_ego |-> s.x_ego + n * s.v_ego + (n * n * s.a_ego) \div 2 + (n * n * n * j) \div 6,
   v_ego |-> s.v_ego + n * s.a_ego + (n * n * j) \div 2,
   a_ego |-> s.a_ego + n * j]

\* C8: in the trajectory of an accepted solution the first node is the ego
\* state measured at the start of the tick, and each later node is the state
\* the dynamics reach from the node before it under that interval's control.
C8_round_trip ==
  Accepted =>
    /\ solver.x[1] = solver.x0
    /\ \A k \in 1..20 :
         solver.x[k + 1] = Flow(solver.x[k], solver.u[k], solver.numSteps[k - 1])

C8_Witness ==
  /\ Accepted
  /\ solver.u[1] # 0
  /\ solver.u[6] # solver.u[1]
  /\ solver.x0.a_ego # 0
  /\ solver.x[21].x_ego # solver.x0.x_ego

\* C9 as stated: every shooting interval is integrated with 50 steps.
C9_fifty_steps_per_interval ==
  solver.exported => \A k \in 0..19 : solver.numSteps[k] = 50

\* C9, amended: the integrator is RK4 with 50 steps over the whole horizon,
\* each 0.2 s long: one step in each of intervals 0..4 and three steps in
\* each of intervals 5..19.
C9_fifty_steps_per_horizon ==
  solver.exported =>
    /\ options["INTEGRATOR_TYPE"] = "INT_RK4"
    /\ options["NUM_INTEGRATOR_STEPS"] = 50
    /\ SumTo(solver.numSteps, 20) = options["NUM_INTEGRATOR_STEPS"]
    /\ \A k \in 0..4 : solver.numSteps[k] = 1
    /\ \A k \in 5..19 : solver.numSteps[k] = 3
    /\ \A k \in 0..19 : Duration(k) = solver.numSteps[k] * Fx(2, 10)

C9_Witness ==
  /\ pc = "done"
  /\ solver.exported
  /\ solver.numSteps[0] = 1
  /\ solver.numSteps[19] = 3
  /\ SumTo(solver.numSteps, 20) = 50

(***************************************************************************)
(* Properties of the formulation, checked under SpecEval                   *)
(***************************************************************************)
Evaluated == val.op # "none"

\* tolerance of the fixed-point evaluation of exp: one hundredth
Tol == Fx(1, 100)

\* C4 as stated: with the ego speed equal to the lead speed, RW is zero.
C4_RW_zero_at_equal_speed ==
  (Evaluated /\ env.v_ego = env.v_l) => val.RW = 0

\* C4, amended: with the ego speed equal to the lead speed the relative-speed
\* term and the two braking distances cancel and RW is the reaction distance
\* v * time_gap; it is zero only at standstill (or with a zero time gap).
C4_RW_is_reaction_distance ==
  (Evaluated /\ env.v_ego = env.v_l) =>
    /\ val.RW = Mul(env.v_ego, env.time_gap)
    /\ (val.RW = 0 <=> (env.v_ego = 0 \/ env.time_gap = 0))

C4_Witness == Evaluated /\ env.v_ego = env.v_l /\ env.v_ego > 0 /\ val.RW > 0

\* C5 as stated: for v >= 0 follow_const_m is increasing in v, lies strictly
\* between 1.25 and 4.0, approaches 1.25 as v -> 0 and 4.0 as v grows.
C5_follow_from_1_25_to_4 ==
  Evaluated =>
    /\ val.op = "v" => prev.follow_const_m <= val.follow_const_m
    /\ val.follow_const_m > Fx(125, 100)
    /\ val.follow_const_m < Fx(4, 1)
    /\ env.v_ego = 0 => Abs(val.follow_const_m - Fx(125, 100)) <= Tol
    /\ env.v_ego >= Fx(10, 1) => Fx(4, 1) - val.follow_const_m <= Tol

\* C5, amended: for v >= 0 follow_const_m never decreases as v grows, stays
\* above 1.25 and never exceeds 4.0, equals 2.75 / (1 + exp(2.2)) + 1.25
\* (about 1.52) at v = 0, which is its least value on v >= 0, and approaches
\* 4.0 as v grows.
C5_follow_from_1_52_to_4 ==
  Evaluated =>
    /\ val.op = "v" => prev.follow_const_m <= val.follow_const_m
    /\ val.follow_const_m > Fx(125, 100)
    /\ val.follow_const_m <= Fx(4, 1)
    /\ val.follow_const_m >= Fx(1524, 1000) - Tol
    /\ env.v_ego = 0 => Abs(val.follow_const_m - Fx(1524, 1000)) <= Tol
    /\ env.v_ego >= Fx(10, 1) => Fx(4, 1) - val.follow_const_m <= Tol

C5_Witness ==
  /\ val.op = "v"
  /\ env.v_ego >= Fx(10, 1)
  /\ prev.follow_const_m <= val.follow_const_m
  /\ val.follow_const_m > Fx(39, 10)

\* C10: at every point the terminal residual has three components, which are
\* components 1, 2 and 3 of the four-component stage residual at that point;
\* changing only the jerk leaves the terminal residual as it was; Q is 4x4
\* and QN is 3x3, every entry active.
C10_terminal_is_stage_prefix ==
  Evaluated =>
    /\ Len(val.h) = 4
    /\ Len(val.hN) = 3
    /\ \A k \in 1..3 : val.hN[k] = val.h[k]
    /\ val.op = "j" => val.hN = prev.hN
    /\ DOMAIN Q = 1..Len(val.h)
    /\ \A r \in DOMAIN Q : DOMAIN Q[r] = 1..Len(val.h) /\ \A c \in DOMAIN Q[r] : Q[r][c]
    /\ DOMAIN QN = 1..Len(val.hN)
    /\ \A r \in DOMAIN QN : DOMAIN QN[r] = 1..Len(val.hN) /\ \A c \in DOMAIN QN[r] : QN[r][c]

C10_Witness ==
  /\ val.op = "j"
  /\ val.h[4] # prev.h[4]
  /\ val.hN = prev.hN
  /\ val.hN[1] # S
  /\ val.hN[3] # 0

====
